---- MODULE Spec2Model ----
(***************************************************************************)
(* A model of the kernel condition variable of rust/kernel/sync/condvar.rs *)
(* (CondVar over struct wait_queue_head) and of the character device of    *)
(* samples/rust/complete.rs that sleeps on it in read and wakes in write.  *)
(*                                                                         *)
(* A thread's position is the statement of CondVar::wait it executes next. *)
(* The kernel primitives the code calls through bindings are modelled by   *)
(* their effect on the wait list, on the task state and on the lock.       *)
(***************************************************************************)
EXTENDS Integers, Sequences, FiniteSets, TLC

\* ------------------------------------------------------------------ bounds
NumWaiters == 2     \* threads that call CondVar::wait
MaxSignals == 1     \* threads that are sent a signal

\* The waiters, and one more thread that locks, writes and notifies but
\* never waits.
Waiters == 1..NumWaiters
Producer == NumWaiters + 1
Threads == Waiters \cup {Producer}

\* ------------------------------------------------------- program constants
TASK_INTERRUPTIBLE == "INTERRUPTIBLE"
TASK_UNINTERRUPTIBLE == "UNINTERRUPTIBLE"
TASK_RUNNING == "RUNNING"

\* the state wait hands to prepare_to_wait_exclusive (condvar.rs:80)
WaitStateRunning == TASK_RUNNING
WaitState == TASK_INTERRUPTIBLE

\* bindings::TASK_NORMAL, the mode notify hands to __wake_up (condvar.rs:109)
WakeModeUninterruptible == {TASK_UNINTERRUPTIBLE}
TASK_NORMAL == {TASK_INTERRUPTIBLE, TASK_UNINTERRUPTIBLE}

\* count arguments of notify: free_waiters (condvar.rs:134), notify_all
\* (condvar.rs:127), notify_one (condvar.rs:120)
FreeWaitersCount == 1
NotifyAllCountOne == FreeWaitersCount
NotifyAllCount == 0
NotifyOneCountAll == NotifyAllCount
NotifyOneCount == 1

\* '1' as u8, stored in guard[0] by read (complete.rs:111)
ReadMark == 49

VARIABLES
    cvInit,      \* __init_waitqueue_head has run on wait_list
    queue,       \* wait_list: the threads with an entry, head first
    owner,       \* the set of threads that hold the lock: {} or {t}
    pc,          \* each thread's position
    tstate,      \* each thread's task state
    sigpending,  \* each thread's signal-pending flag
    retval,      \* the value the thread's last wait returned
    data,        \* the data the lock protects (counter, or guard[0])
    wokenBy,     \* history: what made the thread runnable in this wait
    regSeq,      \* history: the registered threads, earliest registration first
    missed       \* history: a notify_one or notify_all found no entry

vars == <<cvInit, queue, owner, pc, tstate, sigpending, retval, data,
          wokenBy, regSeq, missed>>

\* ----------------------------------------------------------------- helpers
Range(s) == {s[i] : i \in 1..Len(s)}

InQueue(t) == t \in Range(queue)

\* an unlink that takes whatever entry is first
RemoveFirst(q, t) == IF q = <<>> THEN <<>> ELSE Tail(q)

RECURSIVE Remove(_, _)
\* list_del_init of t's entry; nothing to do when the entry is not linked
Remove(q, t) ==
    IF q = <<>> THEN <<>>
    ELSE IF Head(q) = t THEN Remove(Tail(q), t)
    ELSE <<Head(q)>> \o Remove(Tail(q), t)

WaitOrderUnlockFirst ==
    <<"unlock", "prepare", "schedule", "lock", "finish", "sigcheck">>
WaitOrderNoRelock == <<"prepare", "unlock", "schedule", "finish", "sigcheck">>

WaitOrderFinishFirst ==
    <<"prepare", "unlock", "schedule", "finish", "lock", "sigcheck">>

\* The statements of CondVar::wait in program order; a thread inside wait
\* is at the statement it executes next, or asleep inside schedule().
WaitOrder == <<"prepare", "unlock", "schedule", "lock", "finish", "sigcheck">>

StepIndex(step) == CHOOSE i \in 1..Len(WaitOrder) : WaitOrder[i] = step

After(step) ==
    IF StepIndex(step) = Len(WaitOrder) THEN "returned"
    ELSE WaitOrder[StepIndex(step) + 1]

InsideWait(t) == pc[t] \in Range(WaitOrder) \cup {"sleeping"}

\* try_to_wake_up(p, TASK_NORMAL): succeeds on a task that is not running
CanWake(st, t) == st[t] \in TASK_NORMAL

RECURSIVE WakeUpCommon(_, _, _)
\* __wake_up_common: walk the list from the head; every entry is exclusive
\* with autoremove_wake_function, so a successful wake unlinks the entry,
\* and the walk stops when --nr_exclusive reaches 0. The threads woken,
\* in list order.
WakeUpCommon(q, nr, st) ==
    IF q = <<>> THEN <<>>
    ELSE IF CanWake(st, Head(q))
         THEN IF nr - 1 = 0 THEN <<Head(q)>>
              ELSE <<Head(q)>> \o WakeUpCommon(Tail(q), nr - 1, st)
         ELSE WakeUpCommon(Tail(q), nr, st)

RECURSIVE RemoveAll(_, _)
RemoveAll(q, ts) ==
    IF q = <<>> THEN <<>>
    ELSE IF Head(q) \in ts THEN RemoveAll(Tail(q), ts)
    ELSE <<Head(q)>> \o RemoveAll(Tail(q), ts)

\* A thread asleep in schedule() or due to sleep there: it has released the
\* lock and nothing has made it runnable yet.
Suspended(t) ==
    /\ pc[t] \in {"schedule", "sleeping"}
    /\ tstate[t] = TASK_INTERRUPTIBLE
    /\ ~sigpending[t]

\* ------------------------------------------------------------------- state
TypeOK ==
    /\ cvInit \in BOOLEAN
    /\ queue \in Seq(Threads) /\ Len(queue) <= NumWaiters
    /\ owner \in SUBSET Threads /\ Cardinality(owner) <= 1
    /\ pc \in [Threads -> Range(WaitOrder) \cup
                 {"idle", "store", "locked", "sleeping", "returned", "oops"}]
    /\ tstate \in [Threads -> {TASK_RUNNING, TASK_INTERRUPTIBLE, TASK_UNINTERRUPTIBLE}]
    /\ sigpending \in [Threads -> BOOLEAN]
    /\ retval \in [Threads -> {"none", "true", "false"}]
    /\ data \in {0, 1, ReadMark}
    /\ wokenBy \in [Threads -> {"none", "notify_one", "notify_all",
                                "free_waiters", "signal"}]
    /\ regSeq \in Seq(Threads) /\ Len(regSeq) <= NumWaiters
    /\ missed \in BOOLEAN

\* CondVar::new(): wait_list is Opaque::uninit(); nobody holds the lock.
Init ==
    /\ cvInit = FALSE
    /\ queue = <<>>
    /\ owner = {}
    /\ pc = [t \in Threads |-> "idle"]
    /\ tstate = [t \in Threads |-> TASK_RUNNING]
    /\ sigpending = [t \in Threads |-> FALSE]
    /\ retval = [t \in Threads |-> "none"]
    /\ data = 0
    /\ wokenBy = [t \in Threads |-> "none"]
    /\ regSeq = <<>>
    /\ missed = FALSE

\* ---------------------------------------------------------- initialisation
\* NeedsLockClass::init for CondVar: __init_waitqueue_head(wait_list).
CondVarInit ==
    /\ ~cvInit
    /\ cvInit' = TRUE
    /\ queue' = <<>>
    /\ regSeq' = <<>>
    /\ UNCHANGED <<owner, pc, tstate, sigpending, retval, data, wokenBy, missed>>

\* ------------------------------------------------------------ the lock
\* mutex_unlock: the lock is free and the tasks asleep on it are made runnable.
Released(st) ==
    [u \in Threads |-> IF st[u] = TASK_UNINTERRUPTIBLE THEN TASK_RUNNING ELSE st[u]]

\* Lock::lock by a caller outside wait: blocks until the lock is free.
Lock(t) ==
    /\ pc[t] = "idle"
    /\ owner = {}
    /\ owner' = {t}
    /\ pc' = [pc EXCEPT ![t] = "locked"]
    /\ UNCHANGED <<cvInit, queue, tstate, sigpending, retval, data, wokenBy,
                   regSeq, missed>>

\* The caller changes the protected data under the lock (counter := 1).
SetData(t) ==
    /\ pc[t] = "locked"
    /\ data # 1
    /\ data' = 1
    /\ UNCHANGED <<cvInit, queue, owner, pc, tstate, sigpending, retval,
                   wokenBy, regSeq, missed>>

\* The guard goes out of scope: Guard::drop unlocks.
DropGuard(t) ==
    /\ pc[t] \in {"locked", "returned"}
    /\ owner' = owner \ {t}
    /\ tstate' = Released(tstate)
    /\ pc' = [pc EXCEPT ![t] = "idle"]
    /\ retval' = [retval EXCEPT ![t] = "none"]
    /\ wokenBy' = [wokenBy EXCEPT ![t] = "none"]
    /\ UNCHANGED <<cvInit, queue, sigpending, data, regSeq, missed>>

\* ------------------------------------------------------------ CondVar::wait
\* Entry of wait with the guard: the waiter entry is created on the stack and
\* init_wait makes it an unlinked entry of the current task.
CallWait(t) ==
    /\ t \in Waiters
    /\ pc[t] = "locked"
    /\ pc' = [pc EXCEPT ![t] = WaitOrder[1]]
    /\ retval' = [retval EXCEPT ![t] = "none"]
    /\ wokenBy' = [wokenBy EXCEPT ![t] = "none"]
    /\ UNCHANGED <<cvInit, queue, owner, tstate, sigpending, data, regSeq, missed>>

\* prepare_to_wait, which links the entry at the head of the list
PrepareAtHead(t) ==
    /\ pc[t] = "prepare"
    /\ queue' = IF InQueue(t) THEN queue ELSE <<t>> \o queue
    /\ regSeq' = IF t \in Range(regSeq) THEN regSeq ELSE Append(regSeq, t)
    /\ tstate' = [tstate EXCEPT ![t] = WaitState]
    /\ pc' = [pc EXCEPT ![t] = After("prepare")]
    /\ UNCHANGED <<cvInit, owner, sigpending, retval, data, wokenBy, missed>>

\* prepare_to_wait_exclusive(wait_list, wait, TASK_INTERRUPTIBLE): the entry
\* goes to the tail of the list and the task state is set.
Prepare(t) ==
    /\ pc[t] = "prepare"
    /\ queue' = IF InQueue(t) THEN queue ELSE Append(queue, t)
    /\ regSeq' = IF t \in Range(regSeq) THEN regSeq ELSE Append(regSeq, t)
    /\ tstate' = [tstate EXCEPT ![t] = WaitState]
    /\ pc' = [pc EXCEPT ![t] = After("prepare")]
    /\ UNCHANGED <<cvInit, owner, sigpending, retval, data, wokenBy, missed>>

\* an unlock that leaves the lock with the caller
UnlockKeepsLock(t) ==
    /\ pc[t] = "unlock"
    /\ pc' = [pc EXCEPT ![t] = After("unlock")]
    /\ UNCHANGED <<cvInit, queue, owner, tstate, sigpending, retval, data,
                   wokenBy, regSeq, missed>>

\* lock.unlock(&mut guard.context)
Unlock(t) ==
    /\ pc[t] = "unlock"
    /\ owner' = owner \ {t}
    /\ tstate' = Released(tstate)
    /\ pc' = [pc EXCEPT ![t] = After("unlock")]
    /\ UNCHANGED <<cvInit, queue, sigpending, retval, data, wokenBy,
                   regSeq, missed>>

\* a yield: the task comes straight back whatever its state
ScheduleYield(t) ==
    /\ pc[t] = "schedule"
    /\ pc' = [pc EXCEPT ![t] = After("schedule")]
    /\ UNCHANGED <<cvInit, queue, owner, tstate, sigpending, retval, data,
                   wokenBy, regSeq, missed>>

\* a schedule() that does not look at pending signals
ScheduleIgnoresSignal(t) ==
    /\ pc[t] = "schedule"
    /\ \/ /\ tstate[t] = TASK_RUNNING
          /\ pc' = [pc EXCEPT ![t] = After("schedule")]
       \/ /\ tstate[t] = TASK_INTERRUPTIBLE
          /\ pc' = [pc EXCEPT ![t] = "sleeping"]
    /\ UNCHANGED <<cvInit, queue, owner, tstate, sigpending, retval, data,
                   wokenBy, regSeq, missed>>

\* schedule(): a running task comes straight back; an interruptible task
\* with a signal pending is made runnable again; otherwise the task is taken
\* off the CPU until something makes it runnable.
Schedule(t) ==
    /\ pc[t] = "schedule"
    /\ \/ /\ tstate[t] = TASK_RUNNING
          /\ pc' = [pc EXCEPT ![t] = After("schedule")]
          /\ UNCHANGED <<tstate, wokenBy>>
       \/ /\ tstate[t] = TASK_INTERRUPTIBLE
          /\ sigpending[t]
          /\ tstate' = [tstate EXCEPT ![t] = TASK_RUNNING]
          /\ wokenBy' = [wokenBy EXCEPT ![t] = "signal"]
          /\ pc' = [pc EXCEPT ![t] = After("schedule")]
       \/ /\ tstate[t] = TASK_INTERRUPTIBLE
          /\ ~sigpending[t]
          /\ pc' = [pc EXCEPT ![t] = "sleeping"]
          /\ UNCHANGED <<tstate, wokenBy>>
    /\ UNCHANGED <<cvInit, queue, owner, sigpending, retval, data, regSeq, missed>>

\* schedule() returns once the task has been made runnable.
Resume(t) ==
    /\ pc[t] = "sleeping"
    /\ tstate[t] = TASK_RUNNING
    /\ pc' = [pc EXCEPT ![t] = After("schedule")]
    /\ UNCHANGED <<cvInit, queue, owner, tstate, sigpending, retval, data,
                   wokenBy, regSeq, missed>>

\* guard.context = lock.lock_noguard(): taken when the lock is free.
LockNoguard(t) ==
    /\ pc[t] = "lock"
    /\ tstate[t] = TASK_RUNNING
    /\ owner = {}
    /\ owner' = {t}
    /\ pc' = [pc EXCEPT ![t] = After("lock")]
    /\ UNCHANGED <<cvInit, queue, tstate, sigpending, retval, data, wokenBy,
                   regSeq, missed>>

\* lock_noguard on a held mutex: the task sleeps TASK_UNINTERRUPTIBLE until
\* the holder unlocks (a spin lock spins instead and never takes this step).
LockSleep(t) ==
    /\ pc[t] = "lock"
    /\ tstate[t] = TASK_RUNNING
    /\ owner # {}
    /\ tstate' = [tstate EXCEPT ![t] = TASK_UNINTERRUPTIBLE]
    /\ UNCHANGED <<cvInit, queue, owner, pc, sigpending, retval, data, wokenBy,
                   regSeq, missed>>

\* a finish_wait that sets the task state and leaves the entry linked
FinishWaitNoUnlink(t) ==
    /\ pc[t] = "finish"
    /\ tstate' = [tstate EXCEPT ![t] = TASK_RUNNING]
    /\ pc' = [pc EXCEPT ![t] = After("finish")]
    /\ UNCHANGED <<cvInit, queue, owner, sigpending, retval, data, wokenBy,
                   regSeq, missed>>

\* finish_wait(wait_list, wait): the task is running and the entry, when it
\* is still linked, is unlinked.
FinishWait(t) ==
    /\ pc[t] = "finish"
    /\ tstate' = [tstate EXCEPT ![t] = TASK_RUNNING]
    /\ queue' = Remove(queue, t)
    /\ regSeq' = Remove(regSeq, t)
    /\ pc' = [pc EXCEPT ![t] = After("finish")]
    /\ UNCHANGED <<cvInit, owner, sigpending, retval, data, wokenBy, missed>>

\* the wake reason reported in place of the pending flag
SignalPendingByWake(t) == IF wokenBy[t] = "signal" THEN "true" ELSE "false"

\* Task::current().signal_pending() is the value wait returns.
SignalPending(t) == IF sigpending[t] THEN "true" ELSE "false"

SigCheck(t) ==
    /\ pc[t] = "sigcheck"
    /\ retval' = [retval EXCEPT ![t] = SignalPending(t)]
    /\ pc' = [pc EXCEPT ![t] = After("sigcheck")]
    /\ UNCHANGED <<cvInit, queue, owner, tstate, sigpending, data, wokenBy,
                   regSeq, missed>>

\* ---------------------------------------------------------- CondVar::notify
\* a notify that goes ahead only when nobody else holds the caller's lock
NotifyUnderLock(t, op, count) ==
    LET woken == Range(WakeUpCommon(queue, count, tstate))
    IN  /\ pc[t] \in {"idle", "locked", "returned"}
        /\ owner \subseteq {t}
        /\ queue' = RemoveAll(queue, woken)
        /\ regSeq' = RemoveAll(regSeq, woken)
        /\ tstate' = [u \in Threads |->
                        IF u \in woken THEN TASK_RUNNING ELSE tstate[u]]
        /\ wokenBy' = [u \in Threads |->
                        IF u \in woken /\ wokenBy[u] = "none" THEN op
                        ELSE wokenBy[u]]
        /\ missed' = (missed \/ (queue = <<>> /\ op # "free_waiters"))
        /\ UNCHANGED <<cvInit, owner, pc, sigpending, retval, data>>

\* notify(count, flags): __wake_up(wait_list, TASK_NORMAL, count, flags). The
\* entries of wait use autoremove_wake_function, which ignores the key, so
\* the flags change nothing for them.
Notify(t, op, count) ==
    LET woken == Range(WakeUpCommon(queue, count, tstate))
    IN  /\ pc[t] \in {"idle", "locked", "returned"}
        /\ queue' = RemoveAll(queue, woken)
        /\ regSeq' = RemoveAll(regSeq, woken)
        /\ tstate' = [u \in Threads |->
                        IF u \in woken THEN TASK_RUNNING ELSE tstate[u]]
        /\ wokenBy' = [u \in Threads |->
                        IF u \in woken /\ wokenBy[u] = "none" THEN op
                        ELSE wokenBy[u]]
        /\ missed' = (missed \/ (queue = <<>> /\ op # "free_waiters"))
        /\ UNCHANGED <<cvInit, owner, pc, sigpending, retval, data>>

\* The notify calls of the library's user come from the producer, with or
\* without the lock held; who calls changes nothing in what notify does.
\* notify_one: self.notify(1, 0)
NotifyOne(t) ==
    cvInit /\ t = Producer /\ Notify(t, "notify_one", NotifyOneCount)

\* notify_all: self.notify(0, 0)
NotifyAll(t) ==
    cvInit /\ t = Producer /\ Notify(t, "notify_all", NotifyAllCount)

\* free_waiters: self.notify(1, POLLHUP | POLLFREE)
FreeWaiters(t) ==
    cvInit /\ t = Producer /\ Notify(t, "free_waiters", FreeWaitersCount)

\* -------------------------------------------------------------- environment
\* A signal is sent to the thread: the flag is set and an interruptible
\* sleeper is made runnable (signal_wake_up). Only wait reads the flag, so
\* signals to the producer are left out.
Signal(t) ==
    /\ t \in Waiters
    /\ pc[t] # "oops"
    /\ ~sigpending[t]
    /\ Cardinality({u \in Threads : sigpending[u]}) < MaxSignals
    /\ sigpending' = [sigpending EXCEPT ![t] = TRUE]
    /\ tstate' = [tstate EXCEPT ![t] =
                    IF @ = TASK_INTERRUPTIBLE THEN TASK_RUNNING ELSE @]
    /\ wokenBy' = [wokenBy EXCEPT ![t] =
                    IF tstate[t] = TASK_INTERRUPTIBLE /\ @ = "none"
                    THEN "signal" ELSE @]
    /\ UNCHANGED <<cvInit, queue, owner, pc, retval, data, regSeq, missed>>

\* --------------------------------------------------- the user of the library
\* A caller that keeps the safety contract of CondVar::new: init comes first.
UserLock(t) == cvInit /\ Lock(t)

ThreadStep(t) ==
    \/ UserLock(t)
    \/ SetData(t)
    \/ CallWait(t)
    \/ Prepare(t)
    \/ Unlock(t)
    \/ Schedule(t)
    \/ Resume(t)
    \/ LockNoguard(t)
    \/ LockSleep(t)
    \/ FinishWait(t)
    \/ SigCheck(t)
    \/ DropGuard(t)
    \/ NotifyOne(t)
    \/ NotifyAll(t)
    \/ FreeWaiters(t)
    \/ Signal(t)

Next == CondVarInit \/ \E t \in Threads : ThreadStep(t)

Spec == Init /\ [][Next]_vars

\* Every thread inside wait or holding a guard keeps running, and the lock
\* hands itself to a thread that keeps asking for it.
Fairness ==
    /\ \A t \in Waiters :
          /\ WF_vars(Prepare(t) \/ Unlock(t) \/ Schedule(t) \/ Resume(t)
                     \/ FinishWait(t) \/ SigCheck(t))
          /\ SF_vars(LockNoguard(t))
    /\ \A t \in Threads : WF_vars(DropGuard(t))

FairSpec == Spec /\ Fairness

\* ------------------------------------------------- samples/rust/complete.rs
\* RustFile::read: let mut guard = _this.mutex.lock()
ReadLock(t) ==
    /\ t \in Waiters
    /\ pc[t] = "idle"
    /\ owner = {}
    /\ owner' = {t}
    /\ pc' = [pc EXCEPT ![t] = "store"]
    /\ UNCHANGED <<cvInit, queue, tstate, sigpending, retval, data, wokenBy,
                   regSeq, missed>>

\* RustFile::read: guard[0] = '1' as u8
ReadStore(t) ==
    /\ pc[t] = "store"
    /\ data' = ReadMark
    /\ pc' = [pc EXCEPT ![t] = "locked"]
    /\ UNCHANGED <<cvInit, queue, owner, tstate, sigpending, retval,
                   wokenBy, regSeq, missed>>

\* RustFile::write: _this.condvar.notify_all(), without the mutex
Write(t) ==
    /\ pc[t] = "idle"
    /\ Notify(t, "notify_all", NotifyAllCount)

\* GLOBAL_CV is never initialised, so its wait_list is whatever the static
\* holds. Using it is undefined: the list operation either goes through or
\* faults and the kernel kills the task where it stands.
WaitListFault(t) ==
    /\ ~cvInit
    /\ pc[t] \in {"idle", "prepare"}
    /\ pc' = [pc EXCEPT ![t] = "oops"]
    /\ UNCHANGED <<cvInit, queue, owner, tstate, sigpending, retval, data,
                   wokenBy, regSeq, missed>>

DriverStep(t) ==
    \/ ReadLock(t)
    \/ ReadStore(t)
    \/ CallWait(t)
    \/ Prepare(t)
    \/ Unlock(t)
    \/ Schedule(t)
    \/ Resume(t)
    \/ LockNoguard(t)
    \/ LockSleep(t)
    \/ FinishWait(t)
    \/ SigCheck(t)
    \/ DropGuard(t)
    \/ Write(t)
    \/ Signal(t)
    \/ WaitListFault(t)

\* RustCompletion::init registers the device and initialises nothing else.
DriverNext == \E t \in Threads : DriverStep(t)

DriverSpec == Init /\ [][DriverNext]_vars

\* A read that runs keeps running its statements to the end, and the mutex
\* hands itself to a reader that keeps asking for it.
DriverFairness ==
    \A t \in Waiters :
        /\ WF_vars(ReadStore(t) \/ CallWait(t) \/ Prepare(t) \/ Unlock(t)
                   \/ Schedule(t) \/ Resume(t) \/ FinishWait(t) \/ SigCheck(t)
                   \/ DropGuard(t))
        /\ SF_vars(LockNoguard(t))

DriverFairSpec == DriverSpec /\ DriverFairness

\* ------------------------------------------------- the end-to-end scenario
\* Readers do lock, wait, unlock on return, again and again; the writer locks,
\* sets the counter to 1, calls notify_all and unlocks; no signal is sent.
ReaderLock(t) == t \in Waiters /\ UserLock(t)

ReaderUnlock(t) == t \in Waiters /\ pc[t] = "returned" /\ DropGuard(t)

WriterLock(t) == t = Producer /\ UserLock(t)

WriterStore(t) == t = Producer /\ SetData(t)

WriterNotifyAll(t) == pc[t] = "locked" /\ data = 1 /\ NotifyAll(t)

WriterUnlock(t) == t = Producer /\ DropGuard(t)

ScenarioStep(t) ==
    \/ ReaderLock(t)
    \/ CallWait(t)
    \/ Prepare(t)
    \/ Unlock(t)
    \/ Schedule(t)
    \/ Resume(t)
    \/ LockNoguard(t)
    \/ LockSleep(t)
    \/ FinishWait(t)
    \/ SigCheck(t)
    \/ ReaderUnlock(t)
    \/ WriterLock(t)
    \/ WriterStore(t)
    \/ WriterNotifyAll(t)
    \/ WriterUnlock(t)

ScenarioNext == CondVarInit \/ \E t \in Threads : ScenarioStep(t)

ScenarioSpec == Init /\ [][ScenarioNext]_vars

\* Readers and the writer keep running their loops' bodies to the end.
ScenarioFairness ==
    /\ \A t \in Waiters :
          /\ WF_vars(CallWait(t) \/ Prepare(t) \/ Unlock(t) \/ Schedule(t)
                     \/ Resume(t) \/ FinishWait(t) \/ SigCheck(t)
                     \/ ReaderUnlock(t))
          /\ SF_vars(LockNoguard(t))
    /\ WF_vars(WriterUnlock(Producer))

ScenarioFairSpec == ScenarioSpec /\ ScenarioFairness

\* ================================================================== claims
NotifyOneStep == \E p \in Threads : NotifyOne(p)
NotifyAllStep == \E p \in Threads : NotifyAll(p)
FreeWaitersStep == \E p \in Threads : FreeWaiters(p)

Sleepers == {u \in Threads : Suspended(u)}

\* wait has come back from schedule()
PastSchedule(t) == pc[t] \in {"lock", "finish", "sigcheck", "returned"}

\* C1: no missed wakeup. A notify_all makes every registered thread runnable,
\* and so does a notify_one for a thread that is the only one registered,
\* also when the thread has registered but not yet called schedule(); and a
\* thread inside wait that a notify has reached returns from wait in the end.
NoMissedWakeup ==
    /\ [][\A u \in Threads :
            (\/ InQueue(u) /\ NotifyAllStep
             \/ queue = <<u>> /\ NotifyOneStep)
            => tstate'[u] = TASK_RUNNING /\ wokenBy'[u] # "none"]_vars
    /\ \A u \in Waiters :
          (InsideWait(u) /\ wokenBy[u] # "none") ~> (pc[u] = "returned")

\* notify_all has reached a thread between its registration and its call of
\* schedule(): the thread is runnable, its entry is unlinked, and schedule()
\* is its next statement
NoMissedWakeupWitness ==
    \E u \in Threads :
        /\ pc[u] = "schedule"
        /\ wokenBy[u] = "notify_all"
        /\ tstate[u] = TASK_RUNNING
        /\ ~InQueue(u)

\* C2: mutual exclusion on reacquire. A thread that has returned from wait and
\* still has its guard is the one owner of the lock, whatever woke it.
ReacquireExclusive ==
    \A t \in Threads :
        pc[t] \in {"finish", "sigcheck", "returned"} =>
            /\ owner = {t}
            /\ \A u \in Threads \ {t} :
                  pc[u] \notin {"locked", "store", "finish", "sigcheck", "returned"}

\* a thread woken by free_waiters has returned and holds the lock while a
\* second, woken by a signal, waits for that lock
ReacquireExclusiveWitness ==
    \E t, u \in Threads :
        /\ t # u
        /\ pc[t] = "returned" /\ wokenBy[t] = "free_waiters"
        /\ pc[u] = "lock" /\ wokenBy[u] = "signal"

\* C3: register before unlock. A thread inside wait that does not hold the
\* lock and that nothing has made runnable yet has its entry in the list and
\* its task state set to interruptible sleep.
RegisterBeforeUnlock ==
    \A t \in Threads :
        (InsideWait(t) /\ t \notin owner /\ wokenBy[t] = "none") =>
            (InQueue(t) /\ tstate[t] = TASK_INTERRUPTIBLE)

\* a registered thread has released the lock, is not yet asleep, and another
\* thread has taken the lock
RegisterBeforeUnlockWitness ==
    \E t \in Threads :
        /\ pc[t] = "schedule" /\ wokenBy[t] = "none" /\ InQueue(t)
        /\ owner # {} /\ t \notin owner

\* C4: notify_one wakes exactly one. With two or more threads suspended in
\* wait and no signal pending, a notify_one makes exactly one of them runnable
\* and leaves the others suspended; and a suspended thread stops being
\* suspended only by a notify_one, notify_all, free_waiters or a signal.
NotifyOneWakesOne ==
    /\ [][(/\ Cardinality(Sleepers) >= 2
           /\ \A u \in Threads : ~sigpending[u]
           /\ NotifyOneStep)
          => \E w \in Sleepers :
                /\ tstate'[w] = TASK_RUNNING
                /\ wokenBy'[w] = "notify_one"
                /\ \A u \in Sleepers \ {w} : Suspended(u)']_vars
    /\ [][\A u \in Threads :
            (Suspended(u) /\ ~Suspended(u)') =>
                (NotifyOneStep \/ NotifyAllStep \/ FreeWaitersStep \/ Signal(u))]_vars

\* one of two sleeping threads has been woken by notify_one, the other sleeps
NotifyOneWakesOneWitness ==
    \E w, u \in Threads :
        /\ w # u
        /\ pc[w] = "sleeping" /\ wokenBy[w] = "notify_one"
        /\ tstate[w] = TASK_RUNNING
        /\ pc[u] = "sleeping" /\ Suspended(u) /\ InQueue(u)
        /\ \A v \in Threads : ~sigpending[v]

\* C5: notify_all wakes all. With two or more threads suspended in wait, a
\* notify_all makes every one of them runnable and unlinks its entry, and
\* each thread that notify_all woke returns from wait holding the lock.
NotifyAllWakesAll ==
    /\ [][(Cardinality(Sleepers) >= 2 /\ NotifyAllStep)
          => \A u \in Sleepers :
                /\ tstate'[u] = TASK_RUNNING
                /\ wokenBy'[u] = "notify_all"
                /\ u \notin Range(queue')]_vars
    /\ \A u \in Waiters :
          (InsideWait(u) /\ wokenBy[u] = "notify_all")
              ~> (pc[u] = "returned" /\ owner = {u})

\* two threads woken by one notify_all: one has returned and holds the lock,
\* the other is runnable and waits for the lock
NotifyAllWakesAllWitness ==
    \E u, v \in Threads :
        /\ u # v
        /\ wokenBy[u] = "notify_all" /\ pc[u] = "returned" /\ owner = {u}
        /\ wokenBy[v] = "notify_all" /\ pc[v] = "lock"
        /\ queue = <<>>

\* C6: non-sticky notify. A notify_one or notify_all that finds no entry
\* changes nothing of the condition variable, the lock or the threads; a
\* thread that then calls schedule() inside wait with no signal pending, and
\* that no later notify has reached, goes to sleep; and it leaves that sleep
\* only after a notify or a signal has reached it.
NonStickyNotify ==
    /\ [][(queue = <<>> /\ (NotifyOneStep \/ NotifyAllStep))
          => UNCHANGED <<cvInit, queue, owner, pc, tstate, sigpending,
                         retval, data, wokenBy>>]_vars
    /\ [][\A u \in Threads :
            (/\ missed
             /\ wokenBy[u] = "none"
             /\ ~sigpending[u]
             /\ Schedule(u))
            => pc'[u] = "sleeping"]_vars
    /\ [][\A u \in Threads :
            (missed /\ pc[u] = "sleeping" /\ pc'[u] # "sleeping")
            => wokenBy[u] # "none"]_vars

\* after a notify that found no entry, a thread has called wait and sleeps
NonStickyNotifyWitness ==
    \E u \in Threads :
        /\ missed
        /\ pc[u] = "sleeping"
        /\ Suspended(u)
        /\ wokenBy[u] = "none"
        /\ queue = <<u>>

\* C7: free_waiters drains fully. After a free_waiters call every thread that
\* was registered is runnable and no entry is left in the list.
FreeWaitersDrains ==
    [][FreeWaitersStep =>
         /\ queue' = <<>>
         /\ \A u \in Range(queue) : tstate'[u] = TASK_RUNNING]_vars

\* C8: initialisation before use. No thread is inside wait, and no notify_all
\* has run, on a condition variable that init has not initialised.
InitBeforeUse ==
    /\ \A t \in Threads : InsideWait(t) => cvInit
    /\ (missed \/ \E t \in Threads : wokenBy[t] = "notify_all") => cvInit

\* C9: a signal does not abort wait early. A thread that has returned from
\* wait holds the lock and has no entry in the list; it returned true when a
\* signal woke it, and true only with a signal pending; and the value wait
\* returns is the signal-pending flag at the moment it returns.
SignalDoesNotAbort ==
    /\ [](\A t \in Threads :
            pc[t] = "returned" =>
                /\ owner = {t}
                /\ ~InQueue(t)
                /\ retval[t] # "none"
                /\ wokenBy[t] = "signal" => retval[t] = "true"
                /\ retval[t] = "true" => sigpending[t])
    /\ [][\A t \in Threads :
            SigCheck(t) => (retval'[t] = "true" <=> sigpending[t])]_vars

\* a thread woken by a signal has returned true with the lock held while the
\* entry of another, sleeping thread is still in the list
SignalDoesNotAbortWitness ==
    \E t, u \in Threads :
        /\ t # u
        /\ pc[t] = "returned" /\ wokenBy[t] = "signal" /\ retval[t] = "true"
        /\ owner = {t}
        /\ queue = <<u>> /\ pc[u] = "sleeping"

\* u was registered before w
Earlier(u, w) ==
    \E i, j \in 1..Len(regSeq) : i < j /\ regSeq[i] = u /\ regSeq[j] = w

EndToEnd ==
    /\ [](\A r \in Waiters :
            /\ PastSchedule(r) => (wokenBy[r] = "notify_all" /\ data = 1)
            /\ pc[r] = "returned" => (owner = {r} /\ retval[r] = "false"))
    /\ [][\A r \in Waiters :
            (Suspended(r) /\ ~Suspended(r)') => WriterNotifyAll(Producer)]_vars
    /\ \A r \in Waiters :
          (InsideWait(r) /\ wokenBy[r] = "notify_all")
              ~> (pc[r] = "returned" /\ retval[r] = "false" /\ data = 1)

\* both readers slept, the writer set the counter and called notify_all: one
\* reader has returned false under the lock, the other waits for the lock
EndToEndWitness ==
    \E r, q \in Waiters :
        /\ r # q
        /\ pc[r] = "returned" /\ retval[r] = "false" /\ owner = {r}
        /\ wokenBy[r] = "notify_all" /\ data = 1
        /\ pc[q] = "lock" /\ wokenBy[q] = "notify_all"
        /\ pc[Producer] = "idle"

\* the moves of a thread from one statement of wait to the next
WaitMoves ==
    { <<"prepare", "unlock">>, <<"unlock", "schedule">>,
      <<"schedule", "sleeping">>, <<"schedule", "lock">>,
      <<"sleeping", "lock">>, <<"lock", "finish">>,
      <<"finish", "sigcheck">>, <<"sigcheck", "returned">> }

\* C12: a single cycle per wait call. A thread inside wait moves only from
\* register to unlock to suspend to lock to deregister to the return, never
\* back, and wait is entered only at the register step; a thread enters the
\* list only in the register step, while it holds the lock; it gives the lock up only in the unlock step and takes it only in
\* the lock step; it falls asleep only in the suspend step; and after the
\* deregister step its entry is gone. So each step runs once per call, in
\* that order, whatever made the thread runnable.
SingleCycle ==
    [][\A t \in Threads :
         IF pc'[t] = pc[t]
         THEN /\ \/ owner' = owner
                 \/ ~InsideWait(t)
                 \/ ((t \in owner') <=> (t \in owner))
              /\ \/ queue' = queue
                 \/ ~InQueue(t)'
                 \/ InQueue(t)
         ELSE /\ InsideWait(t) => <<pc[t], pc'[t]>> \in WaitMoves
              /\ InsideWait(t)' =>
                    (InsideWait(t) \/ (pc[t] = "locked" /\ pc'[t] = "prepare"))
              /\ (~InQueue(t) /\ InQueue(t)') =>
                    (pc[t] = "prepare" /\ pc'[t] = "unlock" /\ owner = {t})
              /\ (pc[t] = "prepare" /\ pc'[t] = "unlock") =>
                    (InQueue(t)' /\ tstate'[t] = TASK_INTERRUPTIBLE
                     /\ owner' = {t})
              /\ (InsideWait(t) /\ t \in owner /\ t \notin owner') =>
                    (pc[t] = "unlock" /\ pc'[t] = "schedule")
              /\ (pc[t] = "unlock" /\ pc'[t] = "schedule") => owner' = {}
              /\ (InsideWait(t) /\ t \notin owner /\ t \in owner') =>
                    (pc[t] = "lock" /\ pc'[t] = "finish")
              /\ (pc[t] = "lock" /\ pc'[t] = "finish") =>
                    (owner = {} /\ owner' = {t})
              /\ (pc[t] = "finish" /\ pc'[t] = "sigcheck") =>
                    (~InQueue(t)' /\ owner' = {t})
              /\ (pc[t] = "sigcheck" /\ pc'[t] = "returned") =>
                    (retval'[t] # "none" /\ owner' = {t})]_vars

\* two calls of wait, each with another wake reason: one thread has
\* returned after a signal, one is back from its sleep after a notify_one
\* and about to take the lock
SingleCycleWitness ==
    \E t, u \in Threads :
        /\ t # u
        /\ pc[t] = "returned" /\ wokenBy[t] = "signal"
        /\ pc[u] = "lock" /\ wokenBy[u] = "notify_one"
        /\ tstate[u] = TASK_UNINTERRUPTIBLE

\* C13: the lock is free while sleeping. A thread that is past the unlock of
\* wait and not yet back from schedule() does not own the lock; so while
\* threads sleep, a thread outside wait takes the lock as soon as no running
\* thread holds it, and a thread that holds it can enter wait and register
\* behind the sleepers.
LockFreeWhileSleeping ==
    /\ \A t \in Threads :
          pc[t] \in {"schedule", "sleeping"} => t \notin owner
    /\ \A t, u \in Threads :
          (Suspended(t) /\ pc[u] = "idle" /\ owner = {} /\ cvInit)
              => ENABLED UserLock(u)
    /\ \A t, u \in Waiters :
          (Suspended(t) /\ pc[u] = "locked") => ENABLED CallWait(u)
    /\ \A t, u \in Waiters :
          (Suspended(t) /\ pc[u] = "prepare") => ENABLED Prepare(u)

\* every waiter sleeps in wait at once, all registered, and the lock is free
LockFreeWhileSleepingWitness ==
    /\ \A t \in Waiters : pc[t] = "sleeping" /\ Suspended(t) /\ InQueue(t)
    /\ Len(queue) = NumWaiters
    /\ owner = {}

\* a statement of wait executed by t
WaitStep(t) ==
    \/ CallWait(t) \/ Prepare(t) \/ Unlock(t) \/ Schedule(t) \/ Resume(t)
    \/ LockNoguard(t) \/ LockSleep(t) \/ FinishWait(t) \/ SigCheck(t)

\* C14: the frame of the notify operations. A notify_one, notify_all or
\* free_waiters leaves the owner of the lock, the protected data and every
\* thread's position as they are and changes the task state of registered
\* threads only; the caller can always take the call to its end, whoever
\* holds the lock and wherever the other threads are inside wait; and no
\* step that changes the protected data, the pending signals or the
\* initialisation of the list is a statement of wait.
NotifyFrame ==
    /\ [][/\ ((queue' # queue \/ missed' # missed)
             /\ (NotifyOneStep \/ NotifyAllStep \/ FreeWaitersStep)) =>
                /\ UNCHANGED <<owner, data, pc, sigpending, retval, cvInit>>
                /\ \A u \in Threads : ~InQueue(u) => tstate'[u] = tstate[u]
                /\ Range(queue') \subseteq Range(queue)
          /\ (data' # data \/ sigpending' # sigpending \/ cvInit' # cvInit) =>
                \A t \in Threads : ~WaitStep(t)]_vars
    /\ []((cvInit /\ pc[Producer] \in {"idle", "locked", "returned"})
            => /\ ENABLED NotifyOne(Producer)
               /\ ENABLED NotifyAll(Producer)
               /\ ENABLED FreeWaiters(Producer))

\* notify_all has reached a thread that is in the middle of wait and holds
\* the lock: registered, not yet at its unlock
NotifyFrameWitness ==
    \E t \in Waiters :
        /\ pc[t] = "unlock" /\ owner = {t}
        /\ wokenBy[t] = "notify_all" /\ tstate[t] = TASK_RUNNING
        /\ ~InQueue(t)
        /\ data = 0

\* the number of entries of t in the list
Entries(t) == Cardinality({i \in 1..Len(queue) : queue[i] = t})

\* C15: waiter entries never outlive their call. A thread has at most one
\* entry in the list; it has one only between the register step and the
\* deregister step of its own call of wait; and a thread whose wait has
\* deregistered or returned, or that is outside wait, has none, whatever
\* woke it.
EntryWithinCall ==
    \A t \in Threads :
        /\ Entries(t) <= 1
        /\ InQueue(t) =>
              pc[t] \in {"unlock", "schedule", "sleeping", "lock", "finish"}
        /\ pc[t] \in {"idle", "locked", "prepare", "sigcheck", "returned"} =>
              ~InQueue(t)

\* a thread woken by a signal has deregistered its entry, which no notify had
\* unlinked, while the entry of a second thread is in the list
EntryWithinCallWitness ==
    \E t, u \in Threads :
        /\ t # u
        /\ pc[t] = "sigcheck" /\ wokenBy[t] = "signal" /\ ~InQueue(t)
        /\ pc[u] = "schedule" /\ queue = <<u>>

\* the list without the entries of t, the others in their order
Without(q, t) ==
    LET Other(x) == x # t
    IN  SelectSeq(q, Other)

\* C16: deregistration is idempotent. The finish_wait of a thread whose entry
\* a notify has already unlinked leaves the list as it is; with the entry
\* still linked it takes out that one entry and leaves the others in their
\* order; either way no other thread's task state changes, and unlinking
\* a second time changes nothing.
FinishWaitIdempotent ==
    /\ [][\A t \in Threads :
            (pc[t] = "finish" /\ pc'[t] # "finish") =>
                /\ ~InQueue(t) => queue' = queue
                /\ InQueue(t) => Len(queue') = Len(queue) - 1
                /\ queue' = Without(queue, t)
                /\ \A u \in Threads \ {t} : tstate'[u] = tstate[u]]_vars
    /\ [](\A t \in Threads :
            Remove(Remove(queue, t), t) = Remove(queue, t))

\* a thread that notify_one woke, and whose entry notify_one unlinked, has
\* run finish_wait while the entry of a sleeping thread is in the list
FinishWaitIdempotentWitness ==
    \E t, u \in Threads :
        /\ t # u
        /\ pc[t] = "sigcheck" /\ wokenBy[t] = "notify_one"
        /\ queue = <<u>> /\ pc[u] = "sleeping" /\ Suspended(u)

\* C17: notify_one is not consumed by an already-resumed waiter. With thread
\* a resumed by a signal and waiting for the lock inside wait, its entry still
\* in the list, and thread b suspended in wait, a notify_one makes b runnable.
NotifyOneSkipsResumed ==
    [][\A a, b \in Waiters :
         (/\ a # b
          /\ pc[a] = "lock" /\ wokenBy[a] = "signal" /\ InQueue(a)
          /\ Suspended(b) /\ InQueue(b)
          /\ NotifyOneStep)
         => (tstate'[b] = TASK_RUNNING /\ wokenBy'[b] = "notify_one")]_vars

\* C18: progress of the driver. Every read that a write's notify_all has
\* reached comes back from wait, returns and leaves the mutex free for the
\* next; and a read that sleeps leaves its sleep only after a write or a
\* signal has reached it.
DriverProgress ==
    /\ \A r \in Waiters :
          (InsideWait(r) /\ wokenBy[r] = "notify_all")
              ~> (pc[r] = "idle" /\ r \notin owner)
    /\ [][\A r \in Waiters :
            (pc[r] = "sleeping" /\ pc'[r] # "sleeping") =>
                wokenBy[r] \in {"notify_all", "signal"}]_vars

\* C19: a signal already pending at entry. A thread that calls schedule()
\* inside wait with a signal pending comes straight back, runnable, and is
\* never asleep there; and a thread that enters wait with a signal pending
\* returns from it, with the value true and holding the lock, whether or not
\* any notify is ever called.
PendingSignalAtEntry ==
    /\ [][\A t \in Waiters :
            (sigpending[t] /\ pc[t] = "schedule" /\ pc'[t] # "schedule") =>
                (pc'[t] = "lock" /\ tstate'[t] = TASK_RUNNING)]_vars
    /\ [](\A t \in Waiters :
            (pc[t] = "sleeping" /\ sigpending[t]) => tstate[t] = TASK_RUNNING)
    /\ \A t \in Waiters :
          (pc[t] = "prepare" /\ sigpending[t])
              ~> (pc[t] = "returned" /\ retval[t] = "true" /\ owner = {t})

\* a thread whose signal was pending before it registered (nothing woke it:
\* its task state is still the one prepare_to_wait_exclusive set) has
\* registered and released the lock, and schedule() is its next statement
PendingSignalAtEntryWitness ==
    \E t \in Waiters :
        /\ pc[t] = "schedule" /\ sigpending[t]
        /\ tstate[t] = TASK_INTERRUPTIBLE /\ wokenBy[t] = "none"
        /\ queue = <<t>> /\ owner = {}
        /\ ~missed

====
